---- MODULE Spec2Model ----
(***************************************************************************)
(* Model of bridge_model.py: the parametric layout arithmetic of           *)
(* BridgeModel, the component objects it creates and translates, the       *)
(* compound it assembles, and the call sequence of main.                   *)
(*                                                                         *)
(* Numbers.  The parameters are Python ints.  The code divides by 2 with   *)
(* Python's true division (/), which yields halves.  Every coordinate of a *)
(* shape, every translation component and every girder Y-position is       *)
(* therefore held as a count of HALF units (the value times 2), which      *)
(* makes x / 2 exact: H(x) lifts an int to half units, TrueDiv2(x) is the  *)
(* int x divided by 2.  deck_width and deck_z_level stay ints, as in the   *)
(* code.                                                                   *)
(*                                                                         *)
(* The geometry kernel (OCC) is external.  A solid is modelled by the      *)
(* axis-aligned boxes it was fused from; every kernel call either returns  *)
(* or raises, chosen nondeterministically.                                 *)
(***************************************************************************)
EXTENDS Integers, Sequences, FiniteSets, TLC

\* ---------------------------------------------------------------- bounds
MaxGirders == 3
MaxSpacing == 2
MaxOverhang == 2
MaxDepth == 4
MaxFlange == 3
MaxCalls == 5
MaxCallGirders == 2

\* ------------------------------------------------ module-level parameters
SPAN_LENGTH_L == 12000
N_GIRDERS == 3
GIRDER_CENTROID_SPACING == 3000
GIRDER_OFFSET_FROM_EDGE == 500
SKEW_ANGLE == 10
GIRDER_SECTION_D == 900
GIRDER_SECTION_BF == 300
GIRDER_SECTION_TF == 16
GIRDER_SECTION_TW == 10
DECK_THICKNESS == 200
PARAPET_WIDTH == 300
PARAPET_HEIGHT == 1000
STEP_FILENAME == "bridge_model.step"
BREP_FILENAME == "bridge_model.brep"

\* The fields of the BridgeModel, then the two export toggles (module
\* constants, both True as shipped; either value here, so that both sides of
\* each gate in export are taken), then main's position: pc is the next call
\* main makes ("done" after the last, "raised" once an exception has left
\* main), calls the calls made so far and written the files written so far.
VARIABLES
    span_length, n_girders, spacing, overhang, skew_angle,
    girder_section_d, girder_section_bf, girder_section_tf, girder_section_tw,
    deck_thickness,
    girders, parapets, deck, assembly_shape,
    deck_width, girder_positions_y, deck_z_level,
    SAVE_STEP, SAVE_BREP,
    pc, calls, written

params == <<span_length, n_girders, spacing, overhang, skew_angle,
            girder_section_d, girder_section_bf, girder_section_tf,
            girder_section_tw, deck_thickness, SAVE_STEP, SAVE_BREP>>
layout == <<deck_width, girder_positions_y, deck_z_level>>
components == <<girders, parapets, deck>>
vars == <<params, layout, components, assembly_shape, pc, calls, written>>

\* ------------------------------------------------------------ arithmetic
\* An int in half units.
H(x) == 2 * x
\* Python's x / 2 for an int x, in half units (exact).
TrueDiv2(x) == x

Min(a, b) == IF a <= b THEN a ELSE b
Max(a, b) == IF a >= b THEN a ELSE b

\* ------------------------------------------------------- geometry kernel
None == [kind |-> "None"]

\* BRepPrimAPI_MakeBox(dx, dy, dz).Shape(): a box with one corner at the origin.
MakeBox(dx, dy, dz) ==
    [kind |-> "Solid",
     boxes |-> << [lo |-> <<0, 0, 0>>, hi |-> <<H(dx), H(dy), H(dz)>>] >>]

\* BRepBuilderAPI_Transform(shape, trsf, True).Shape() with trsf a translation
\* by v (in half units): a new shape, every point moved by v.
Transform(shape, v) ==
    [kind |-> "Solid",
     boxes |-> [k \in 1..Len(shape.boxes) |->
                  [lo |-> [c \in 1..3 |-> shape.boxes[k].lo[c] + v[c]],
                   hi |-> [c \in 1..3 |-> shape.boxes[k].hi[c] + v[c]]]]]

\* BRepAlgoAPI_Fuse(a, b).Shape(): the union of the two solids.
Fuse(a, b) == [kind |-> "Solid", boxes |-> a.boxes \o b.boxes]

\* ------------------------------------------------------ factory functions
\* create_i_section with the top flange raised by d instead of d - tf.
create_i_section_TopAtD(d, bf, tf, tw, length) ==
    LET web_height == d - 2 * tf
        bottom_flange == MakeBox(length, bf, tf)
        top_flange == Transform(MakeBox(length, bf, tf), <<H(0), H(0), H(d)>>)
        web == Transform(MakeBox(length, tw, web_height),
                         <<H(0), TrueDiv2(bf - tw), H(tf)>>)
    IN  Fuse(Fuse(bottom_flange, top_flange), web)

create_i_section(d, bf, tf, tw, length) ==
    LET web_height == d - 2 * tf
        bottom_flange == MakeBox(length, bf, tf)
        top_flange == Transform(MakeBox(length, bf, tf), <<H(0), H(0), H(d - tf)>>)
        web == Transform(MakeBox(length, tw, web_height),
                         <<H(0), TrueDiv2(bf - tw), H(tf)>>)
    IN  Fuse(Fuse(bottom_flange, top_flange), web)

create_rectangular_prism(width, height, length) == MakeBox(length, width, height)

\* ------------------------------------------------------ component classes
\* BridgeComponent.translate: replaces the shape by its translated copy.
translate(comp, dx, dy, dz) ==
    [comp EXCEPT !.shape = Transform(comp.shape, <<dx, dy, dz>>)]

\* Girder(...) followed by create_geometry().
NewGirder(d, bf, tf, tw, length) ==
    [d |-> d, bf |-> bf, tf |-> tf, tw |-> tw, length |-> length, shape |-> None]
GirderCreateGeometry(g) ==
    [g EXCEPT !.shape = create_i_section(g.d, g.bf, g.tf, g.tw, g.length)]

NewDeck(width, thickness, length) ==
    [kind |-> "Deck", width |-> width, thickness |-> thickness,
     length |-> length, shape |-> None]
DeckCreateGeometry(dk) ==
    [dk EXCEPT !.shape = create_rectangular_prism(dk.width, dk.thickness, dk.length)]

NewParapet(width, height, length) ==
    [width |-> width, height |-> height, length |-> length, shape |-> None]
ParapetCreateGeometry(p) ==
    [p EXCEPT !.shape = create_rectangular_prism(p.width, p.height, p.length)]

\* --------------------------------------------------- BridgeModel: layout
\* deck_width counting one spacing per girder instead of one per gap.
DeckWidthPerGirder(sp, n, oh) == sp * n + 2 * oh

\* deck_width with the overhang on one side only.
DeckWidthOneOverhang(sp, n, oh) == sp * (n - 1) + oh

\* self.deck_width (an int).
DeckWidth(sp, n, oh) == sp * (n - 1) + 2 * oh

\* start_y with floor division (//) in place of true division.
StartYFloorDiv(sp, n) ==
    LET x == (0 - sp) * (n - 1) IN H((x - (x % 2)) \div 2)

\* start_y (half units).
StartY(sp, n) == TrueDiv2((0 - sp) * (n - 1))

\* girder_positions_y stepping downwards from start_y.
GirderPositionsYDescending(sp, n) ==
    [i \in 1..Max(n, 0) |-> StartY(sp, n) - H((i - 1) * sp)]

\* self.girder_positions_y (half units); range(n) is empty for n <= 0.
GirderPositionsY(sp, n) ==
    [i \in 1..Max(n, 0) |-> StartY(sp, n) + H((i - 1) * sp)]

\* self.deck_z_level (an int).
DeckZLevel(d) == d

compute_layout ==
    /\ deck_width' = DeckWidth(spacing, n_girders, overhang)
    /\ girder_positions_y' = GirderPositionsY(spacing, n_girders)
    /\ deck_z_level' = DeckZLevel(girder_section_d)
    /\ UNCHANGED <<params, components, assembly_shape, written>>

\* ------------------------------------------- BridgeModel: create_components
\* The method makes Len(girder_positions_y) + 3 components in order (girders,
\* deck, two parapets).  k is the number of components whose create_geometry
\* returned; the next one, if any, raised inside the kernel.
CreateTotal == Len(girder_positions_y) + 3

CreatedGirders(k) ==
    [i \in 1..Min(k, Len(girder_positions_y)) |->
        GirderCreateGeometry(NewGirder(girder_section_d, girder_section_bf,
                                       girder_section_tf, girder_section_tw,
                                       span_length))]

\* self.deck is assigned before its create_geometry() runs.
CreatedDeck(k) ==
    IF k < Len(girder_positions_y) THEN deck
    ELSE IF k = Len(girder_positions_y)
         THEN NewDeck(deck_width, deck_thickness, span_length)
         ELSE DeckCreateGeometry(NewDeck(deck_width, deck_thickness, span_length))

CreatedParapets(k) ==
    [i \in 1..Max(0, Min(2, k - Len(girder_positions_y) - 1)) |->
        ParapetCreateGeometry(NewParapet(PARAPET_WIDTH, PARAPET_HEIGHT, span_length))]

create_components(k) ==
    /\ girders' = girders \o CreatedGirders(k)
    /\ deck' = CreatedDeck(k)
    /\ parapets' = parapets \o CreatedParapets(k)
    /\ UNCHANGED <<params, layout, assembly_shape, written>>

\* ----------------------------------------- BridgeModel: position_components
\* zip(self.girders, self.girder_positions_y) stops at the shorter of the two.
ZipLen == Min(Len(girders), Len(girder_positions_y))

\* The deck translated without the transverse centring.
DeckTranslationUncentred(dw, dz) == <<H(0), H(0), H(dz)>>

DeckTranslation(dw, dz) == <<H(0), TrueDiv2(0 - dw), H(dz)>>

\* Parapet 1 offset outwards by half its width, mirroring parapet 0.
ParapetTranslationMirrored(i, dw, dz, dt) ==
    LET parapet_z == H(dz + dt)
        half_w == TrueDiv2(dw)
    IN  IF i = 0
        THEN <<H(0), (0 - half_w) - TrueDiv2(PARAPET_WIDTH), parapet_z>>
        ELSE <<H(0), half_w + TrueDiv2(PARAPET_WIDTH), parapet_z>>

\* parapet_z and half_w, then the two translation vectors.
ParapetTranslation(i, dw, dz, dt) ==
    LET parapet_z == H(dz + dt)
        half_w == TrueDiv2(dw)
    IN  IF i = 0
        THEN <<H(0), (0 - half_w) - TrueDiv2(PARAPET_WIDTH), parapet_z>>
        ELSE <<H(0), half_w - TrueDiv2(PARAPET_WIDTH), parapet_z>>

\* The method makes ZipLen + 3 translate calls in order.  k of them returned.
\* A call on a missing component or on a component without a shape raises.
PositionTotal == ZipLen + 3
PositionMaxOk ==
    IF deck = None \/ deck.shape = None THEN ZipLen
    ELSE IF Len(parapets) = 0 THEN ZipLen + 1
    ELSE IF Len(parapets) = 1 THEN ZipLen + 2
    ELSE ZipLen + 3

PositionedGirders(k) ==
    [i \in 1..Len(girders) |->
        IF i <= Min(k, ZipLen)
        THEN translate(girders[i], H(0), girder_positions_y[i], H(0))
        ELSE girders[i]]

PositionedDeck(k) ==
    IF k >= ZipLen + 1
    THEN LET v == DeckTranslation(deck_width, deck_z_level)
         IN  translate(deck, v[1], v[2], v[3])
    ELSE deck

\* Both parapet translations applied to self.parapets[0].
PositionedParapetsSameIndex(k) ==
    [i \in 1..Len(parapets) |->
        IF i = 1 /\ k >= ZipLen + 2
        THEN LET v == ParapetTranslation(0, deck_width, deck_z_level, deck_thickness)
                 w == ParapetTranslation(1, deck_width, deck_z_level, deck_thickness)
                 once == translate(parapets[1], v[1], v[2], v[3])
             IN  IF k >= ZipLen + 3 THEN translate(once, w[1], w[2], w[3]) ELSE once
        ELSE parapets[i]]

PositionedParapets(k) ==
    [i \in 1..Len(parapets) |->
        IF i <= 2 /\ k >= ZipLen + 1 + i
        THEN LET v == ParapetTranslation(i - 1, deck_width, deck_z_level,
                                         deck_thickness)
             IN  translate(parapets[i], v[1], v[2], v[3])
        ELSE parapets[i]]

position_components(k) ==
    /\ girders' = PositionedGirders(k)
    /\ deck' = PositionedDeck(k)
    /\ parapets' = PositionedParapets(k)
    /\ UNCHANGED <<params, layout, assembly_shape, written>>

\* ---------------------------------------------------- BridgeModel: assemble
\* The compound with the deck added before the girders.
CompoundDeckFirst ==
    [kind |-> "Compound",
     solids |-> << deck.shape >>
                \o [i \in 1..Len(girders) |-> girders[i].shape]
                \o [i \in 1..Len(parapets) |-> parapets[i].shape]]

\* The compound: the shapes added, in the order of the builder.Add calls.
Compound ==
    [kind |-> "Compound",
     solids |-> [i \in 1..Len(girders) |-> girders[i].shape]
                \o << deck.shape >>
                \o [i \in 1..Len(parapets) |-> parapets[i].shape]]

\* self.deck.get_shape() needs a deck; builder.Add needs a shape.
AssembleCanReturn == deck # None /\ deck.shape # None

\* ok: every kernel call returned; assembly_shape is assigned last.
assemble(ok) ==
    /\ assembly_shape' = IF ok THEN Compound ELSE assembly_shape
    /\ UNCHANGED <<params, layout, components, written>>

\* ----------------------------------------------------- BridgeModel: display
\* Reads the component shapes and hands them to the viewer.
display ==
    UNCHANGED <<params, layout, components, assembly_shape, written>>

\* ------------------------------------------------------ BridgeModel: export
\* The files export writes, in order.
ExportFiles(step, brep) ==
    (IF step THEN <<STEP_FILENAME>> ELSE <<>>)
    \o (IF brep THEN <<BREP_FILENAME>> ELSE <<>>)

\* k of the writes returned; a writer handed no shape raises.
ExportMaxOk ==
    IF assembly_shape = None THEN 0 ELSE Len(ExportFiles(SAVE_STEP, SAVE_BREP))

export(k) ==
    /\ written' = written \o SubSeq(ExportFiles(SAVE_STEP, SAVE_BREP), 1, k)
    /\ UNCHANGED <<params, layout, components, assembly_shape>>

\* ------------------------------------------------------------------- main
\* main exporting before it displays.
MainAfterExportFirst(p) ==
    CASE p = "compute_layout" -> "create_components"
      [] p = "create_components" -> "position_components"
      [] p = "position_components" -> "assemble"
      [] p = "assemble" -> "export"
      [] p = "export" -> "display"
      [] p = "display" -> "done"

\* The calls main makes on the bridge, in order; pc names the next one.
MainAfter(p) ==
    CASE p = "compute_layout" -> "create_components"
      [] p = "create_components" -> "position_components"
      [] p = "position_components" -> "assemble"
      [] p = "assemble" -> "display"
      [] p = "display" -> "export"
      [] p = "export" -> "done"

\* main catching and dropping every exception.
OutcomeSwallowed(p, returned) == MainAfter(p)

\* The outcome of a call: it returned, or it raised and the exception left main.
Outcome(p, returned) == IF returned THEN MainAfter(p) ELSE "raised"

Call(p) == pc = p /\ calls' = Append(calls, p)

MainComputeLayout ==
    /\ Call("compute_layout")
    /\ compute_layout
    /\ pc' = Outcome("compute_layout", TRUE)

MainCreateComponents ==
    /\ Call("create_components")
    /\ \E k \in 0..CreateTotal :
          /\ create_components(k)
          /\ pc' = Outcome("create_components", k = CreateTotal)

MainPositionComponents ==
    /\ Call("position_components")
    /\ \E k \in 0..PositionMaxOk :
          /\ position_components(k)
          /\ pc' = Outcome("position_components", k = PositionTotal)

MainAssemble ==
    /\ Call("assemble")
    /\ \E ok \in {b \in BOOLEAN : b => AssembleCanReturn} :
          /\ assemble(ok)
          /\ pc' = Outcome("assemble", ok)

MainDisplay ==
    /\ Call("display")
    /\ display
    /\ \E ok \in BOOLEAN : pc' = Outcome("display", ok)

MainExport ==
    /\ Call("export")
    /\ \E k \in 0..ExportMaxOk :
          /\ export(k)
          /\ pc' = Outcome("export", k = Len(ExportFiles(SAVE_STEP, SAVE_BREP)))

\* ---------------------------------------------------------- configurations
\* The parameter sets of the test script (the first is also main's).
test_configurations ==
    { [span_length |-> SPAN_LENGTH_L, n_girders |-> N_GIRDERS,
       spacing |-> GIRDER_CENTROID_SPACING, overhang |-> GIRDER_OFFSET_FROM_EDGE,
       skew_angle |-> SKEW_ANGLE, girder_d |-> GIRDER_SECTION_D,
       girder_bf |-> GIRDER_SECTION_BF, girder_tf |-> GIRDER_SECTION_TF,
       girder_tw |-> GIRDER_SECTION_TW, deck_thickness |-> DECK_THICKNESS],
      [span_length |-> 15000, n_girders |-> 4, spacing |-> 2500, overhang |-> 500,
       skew_angle |-> 0, girder_d |-> 1000, girder_bf |-> 350, girder_tf |-> 20,
       girder_tw |-> 12, deck_thickness |-> 250],
      [span_length |-> 20000, n_girders |-> 5, spacing |-> 3500, overhang |-> 600,
       skew_angle |-> 15, girder_d |-> 1200, girder_bf |-> 400, girder_tf |-> 25,
       girder_tw |-> 15, deck_thickness |-> 300] }

\* Small parameter sets: the constructor validates nothing, so zero girders,
\* zero or negative spacing, zero overhang, a depth below two flanges and a
\* web wider than the flange are all accepted.
SmallConfigurations ==
    [span_length : {1}, n_girders : 0..MaxGirders, spacing : (0 - 1)..MaxSpacing,
     overhang : 0..MaxOverhang, skew_angle : {0}, girder_d : 1..MaxDepth,
     girder_bf : 1..MaxFlange, girder_tf : {1, 2}, girder_tw : {1, 2},
     deck_thickness : {2}]

Configurations == test_configurations \cup SmallConfigurations

\* BridgeModel.__init__ on one configuration; main has made no call yet.
Init ==
    /\ \E c \in Configurations :
          /\ span_length = c.span_length
          /\ n_girders = c.n_girders
          /\ spacing = c.spacing
          /\ overhang = c.overhang
          /\ skew_angle = c.skew_angle
          /\ girder_section_d = c.girder_d
          /\ girder_section_bf = c.girder_bf
          /\ girder_section_tf = c.girder_tf
          /\ girder_section_tw = c.girder_tw
          /\ deck_thickness = c.deck_thickness
    /\ SAVE_STEP \in BOOLEAN
    /\ SAVE_BREP \in BOOLEAN
    /\ girders = <<>>
    /\ parapets = <<>>
    /\ deck = None
    /\ assembly_shape = None
    \* deck_width, girder_positions_y and deck_z_level are not attributes yet;
    \* nothing reads them before compute_layout assigns them.
    /\ deck_width = 0
    /\ girder_positions_y = <<>>
    /\ deck_z_level = 0
    /\ pc = "compute_layout"
    /\ calls = <<>>
    /\ written = <<>>

Next ==
    \/ MainComputeLayout
    \/ MainCreateComponents
    \/ MainPositionComponents
    \/ MainAssemble
    \/ MainDisplay
    \/ MainExport

Spec == Init /\ [][Next]_vars

\* ============================================================== properties
\* The call p has been made and has returned (the last call made is the only
\* one that can have raised).
Returned(p) ==
    \E i \in 1..Len(calls) :
        calls[i] = p /\ ~(i = Len(calls) /\ pc = "raised")

LayoutComputed == Returned("compute_layout")
Positioned == Returned("position_components")
Assembled == Returned("assemble")

\* Extent of a solid along axis c (1 = X, 2 = Y, 3 = Z), in half units.
Coords(shape, c) ==
    {shape.boxes[k].lo[c] : k \in 1..Len(shape.boxes)}
    \cup {shape.boxes[k].hi[c] : k \in 1..Len(shape.boxes)}
Lowest(shape, c) == CHOOSE m \in Coords(shape, c) : \A x \in Coords(shape, c) : m <= x
Highest(shape, c) == CHOOSE m \in Coords(shape, c) : \A x \in Coords(shape, c) : m >= x
\* The interval a box covers along axis c.
Span(box, c) == <<box.lo[c], box.hi[c]>>

IsDefaultConfiguration ==
    /\ span_length = 12000 /\ n_girders = 3 /\ spacing = 3000 /\ overhang = 500
    /\ girder_section_d = 900 /\ girder_section_bf = 300
    /\ girder_section_tf = 16 /\ girder_section_tw = 10 /\ deck_thickness = 200

\* C1: for n_girders >= 1 and every (integer) spacing, compute_layout leaves exactly
\* n_girders positions, the first at -spacing*(n_girders-1)/2 (in half units:
\* -spacing*(n_girders-1)), consecutive ones exactly spacing apart, symmetric
\* about 0; n_girders=4, spacing=2500 gives [-3750, -1250, 1250, 3750] and
\* n_girders=1 gives [0].
C1_GirderPositions ==
    (LayoutComputed /\ n_girders >= 1) =>
        /\ Len(girder_positions_y) = n_girders
        /\ girder_positions_y[1] = 0 - spacing * (n_girders - 1)
        /\ \A i \in 1..(n_girders - 1) :
              girder_positions_y[i + 1] - girder_positions_y[i] = 2 * spacing
        /\ \A i \in 1..n_girders :
              girder_positions_y[i] = 0 - girder_positions_y[n_girders + 1 - i]
        /\ (n_girders = 4 /\ spacing = 2500) =>
              girder_positions_y = <<2 * (0 - 3750), 2 * (0 - 1250), 2 * 1250, 2 * 3750>>
        /\ (n_girders = 1) => girder_positions_y = <<0>>

C1_Witness ==
    /\ LayoutComputed /\ n_girders = 4 /\ spacing = 2500
    /\ girder_positions_y = <<0 - 7500, 0 - 2500, 2500, 7500>>

\* C2 as claimed: for n_girders >= 1 the positions are strictly increasing for
\* every parameter set the constructor accepts.
C2_StrictlyIncreasingAnyInput ==
    (LayoutComputed /\ n_girders >= 1) =>
        \A i \in 1..(Len(girder_positions_y) - 1) :
            girder_positions_y[i] < girder_positions_y[i + 1]

\* C2 amended: for n_girders >= 1 and spacing > 0 the positions are strictly
\* increasing; with spacing = 0 they are all equal and with spacing < 0 they
\* are strictly decreasing.
C2_StrictlyIncreasing ==
    (LayoutComputed /\ n_girders >= 1) =>
        \A i \in 1..(Len(girder_positions_y) - 1) :
            /\ spacing > 0 => girder_positions_y[i] < girder_positions_y[i + 1]
            /\ spacing = 0 => girder_positions_y[i] = girder_positions_y[i + 1]
            /\ spacing < 0 => girder_positions_y[i] > girder_positions_y[i + 1]

C2_Witness ==
    /\ LayoutComputed /\ n_girders >= 3 /\ spacing > 0
    /\ girder_positions_y[1] < girder_positions_y[2]
    /\ girder_positions_y[2] < girder_positions_y[3]

\* C3: for all inputs compute_layout sets deck_width to
\* spacing*(n_girders-1) + 2*overhang: 7000 for 3/3000/500, 8500 for
\* 4/2500/500, and 2*overhang for a single girder.
C3_DeckWidth ==
    LayoutComputed =>
        /\ deck_width = spacing * (n_girders - 1) + 2 * overhang
        /\ (n_girders = 3 /\ spacing = 3000 /\ overhang = 500) => deck_width = 7000
        /\ (n_girders = 4 /\ spacing = 2500 /\ overhang = 500) => deck_width = 8500
        /\ (n_girders = 1) => deck_width = overhang + overhang

C3_Witness ==
    /\ LayoutComputed /\ n_girders = 3 /\ spacing = 3000 /\ overhang = 500
    /\ deck_width = 7000

\* C4: deck_z_level equals girder_section_d, and once the components are
\* positioned, for positive dimensions with d >= 2*tf, every girder has its
\* bottom flange over Z in [0, tf], its web over [tf, d-tf] and its top flange
\* over [d-tf, d], and the lowest Z of the deck equals the highest Z of every
\* girder (no gap, no overlap).
C4_DeckRestsOnGirders ==
    /\ LayoutComputed => deck_z_level = girder_section_d
    /\ ( /\ Positioned
         /\ girder_section_d >= 2 * girder_section_tf
         /\ girder_section_tf > 0 /\ girder_section_bf > 0 /\ girder_section_tw > 0
         /\ deck_thickness > 0 /\ span_length > 0 ) =>
           /\ Lowest(deck.shape, 3) = 2 * girder_section_d
           /\ \A i \in 1..Len(girders) :
                 /\ Span(girders[i].shape.boxes[1], 3) = <<0, 2 * girder_section_tf>>
                 /\ Span(girders[i].shape.boxes[3], 3) =
                        <<2 * girder_section_tf,
                          2 * (girder_section_d - girder_section_tf)>>
                 /\ Span(girders[i].shape.boxes[2], 3) =
                        <<2 * (girder_section_d - girder_section_tf),
                          2 * girder_section_d>>
                 /\ Highest(girders[i].shape, 3) = Lowest(deck.shape, 3)

C4_Witness ==
    /\ Positioned /\ IsDefaultConfiguration
    /\ Len(girders) = 3
    /\ Highest(girders[2].shape, 3) = 1800
    /\ Lowest(deck.shape, 3) = 1800

\* C5: position_components translates parapet 0 by
\* (0, -deck_width/2 - PARAPET_WIDTH/2, deck_z_level + deck_thickness) and
\* parapet 1 by (0, +deck_width/2 - PARAPET_WIDTH/2, the same Z), so both
\* parapet bottoms are at the deck's top surface; the default configuration
\* puts them at Y = -3650 and Y = 3350, both at Z = 1100.  (Half units: the
\* parapets are made with a corner at the origin, so the translation is the
\* position of that corner.)
C5_ParapetPlacement ==
    Positioned =>
        /\ Len(parapets) = 2
        /\ parapets[1].shape.boxes[1].lo =
              <<0, 0 - deck_width - PARAPET_WIDTH, 2 * (deck_z_level + deck_thickness)>>
        /\ parapets[2].shape.boxes[1].lo =
              <<0, deck_width - PARAPET_WIDTH, 2 * (deck_z_level + deck_thickness)>>
        /\ \A i \in 1..2 :
              /\ parapets[i].shape.boxes[1].hi[2] - parapets[i].shape.boxes[1].lo[2]
                    = 2 * PARAPET_WIDTH
              /\ deck_thickness > 0 =>
                    Lowest(parapets[i].shape, 3) = Highest(deck.shape, 3)
        /\ IsDefaultConfiguration =>
              /\ parapets[1].shape.boxes[1].lo = <<0, 2 * (0 - 3650), 2 * 1100>>
              /\ parapets[2].shape.boxes[1].lo = <<0, 2 * 3350, 2 * 1100>>

C5_Witness ==
    /\ Positioned /\ IsDefaultConfiguration
    /\ parapets[1].shape.boxes[1].lo[2] = 0 - 7300
    /\ parapets[2].shape.boxes[1].lo[2] = 6700

\* C6: once compute_layout, create_components, position_components and
\* assemble have each run, assembly_shape is a compound of exactly
\* n_girders + 3 solids (6 for the default configuration), in the order
\* girders by index, deck, parapet 0, parapet 1, each the component's current
\* shape; and assemble changes no component.
C6_CompoundState ==
    Assembled =>
        /\ assembly_shape.kind = "Compound"
        /\ Len(assembly_shape.solids) = n_girders + 3
        /\ IsDefaultConfiguration => Len(assembly_shape.solids) = 6
        /\ Len(girders) = n_girders
        /\ \A i \in 1..n_girders :
              /\ assembly_shape.solids[i] = girders[i].shape
              /\ Len(girders[i].shape.boxes) = 3
        /\ assembly_shape.solids[n_girders + 1] = deck.shape
        /\ assembly_shape.solids[n_girders + 2] = parapets[1].shape
        /\ assembly_shape.solids[n_girders + 3] = parapets[2].shape

C6_AssembledCompound ==
    /\ []C6_CompoundState
    /\ [][pc = "assemble" => UNCHANGED components]_vars

C6_Witness ==
    /\ Assembled /\ IsDefaultConfiguration
    /\ Len(assembly_shape.solids) = 6
    /\ assembly_shape.solids[4] = deck.shape

\* C7: main makes the calls compute_layout, create_components,
\* position_components, assemble, display, export in that order, each at most
\* once and all six when it ends normally; export is called only after display
\* has returned; export writes the STEP file iff SAVE_STEP and the BREP file
\* iff SAVE_BREP, STEP before BREP.
MainOrder ==
    <<"compute_layout", "create_components", "position_components",
      "assemble", "display", "export">>

CreationFailed ==
    /\ Len(calls) >= 2
    /\ \/ Len(girders) < Len(girder_positions_y)
       \/ deck = None
       \/ deck.shape = None
       \/ Len(parapets) < 2

C8_CreationFailureState ==
    CreationFailed =>
        /\ pc = "raised"
        /\ calls = <<"compute_layout", "create_components">>
        /\ assembly_shape = None
        /\ written = <<>>

C8_CreationFailureIsFatal ==
    /\ []C8_CreationFailureState
    /\ [][pc # "raised"]_vars

C8_Witness ==
    /\ CreationFailed /\ pc = "raised" /\ n_girders = 3
    /\ Len(girders) = 2 /\ deck = None /\ assembly_shape = None

\* C9 as claimed: for n_girders = 0 compute_layout raises nothing, yields no
\* position and a deck_width that is not positive, for every spacing and
\* overhang.
C9_ZeroGirdersNonPositiveWidth ==
    (LayoutComputed /\ n_girders = 0) =>
        /\ girder_positions_y = <<>>
        /\ deck_width <= 0

\* C9 amended: for n_girders = 0 compute_layout raises nothing, yields no
\* position and deck_width = 2*overhang - spacing, which is not positive
\* exactly when spacing >= 2*overhang.
C9_ZeroGirders ==
    /\ (Len(calls) = 1 /\ n_girders = 0) => pc = "create_components"
    /\ (LayoutComputed /\ n_girders = 0) =>
          /\ girder_positions_y = <<>>
          /\ deck_width = 2 * overhang - spacing
          /\ deck_width <= 0 <=> spacing >= 2 * overhang

C9_Witness ==
    /\ LayoutComputed /\ n_girders = 0 /\ girder_positions_y = <<>>
    /\ spacing = 1 /\ overhang = 1 /\ deck_width = 1

\* Girder i covers exactly [Y_i, Y_i + bf] transversely and that interval lies
\* within the deck's transverse extent [-deck_width/2, +deck_width/2].
GirdersUnderDeck ==
    /\ Lowest(deck.shape, 2) = 0 - deck_width
    /\ Highest(deck.shape, 2) = deck_width
    /\ \A i \in 1..Len(girders) :
          /\ Lowest(girders[i].shape, 2) = girder_positions_y[i]
          /\ Highest(girders[i].shape, 2) =
                girder_positions_y[i] + 2 * girder_section_bf
          /\ Lowest(deck.shape, 2) <= Lowest(girders[i].shape, 2)
          /\ Highest(girders[i].shape, 2) <= Highest(deck.shape, 2)

PositiveDimensions ==
    /\ span_length > 0 /\ spacing > 0 /\ overhang > 0 /\ deck_thickness > 0
    /\ girder_section_d > 0 /\ girder_section_bf > 0
    /\ girder_section_tf > 0 /\ girder_section_tw > 0

\* C10 as claimed: once positioned, for all n_girders >= 1 and positive
\* dimensions, every girder covers [Y_i, Y_i + bf] and lies within the deck's
\* transverse extent.
C10_GirdersUnderDeckAnyDimensions ==
    (Positioned /\ n_girders >= 1 /\ PositiveDimensions) => GirdersUnderDeck

\* C10 amended: once positioned, for all n_girders >= 1 and positive
\* dimensions with tw <= bf and bf <= overhang, every girder covers
\* [Y_i, Y_i + bf] and lies within the deck's transverse extent; with
\* tw <= bf and bf > overhang the last girder reaches beyond the deck's edge.
C10_GirdersUnderDeck ==
    ( /\ Positioned /\ n_girders >= 1 /\ PositiveDimensions
      /\ girder_section_tw <= girder_section_bf ) =>
        /\ girder_section_bf <= overhang => GirdersUnderDeck
        /\ girder_section_bf > overhang =>
              Highest(girders[n_girders].shape, 2) > Highest(deck.shape, 2)

C10_Witness ==
    /\ Positioned /\ IsDefaultConfiguration
    /\ Lowest(girders[1].shape, 2) = 0 - 6000
    /\ Highest(girders[3].shape, 2) = 6600
    /\ Highest(deck.shape, 2) = 7000

\* ------------------------------------------- calls in an order of the caller's
\* A caller other than main (the test script, an importing program) calls the
\* four building methods of one BridgeModel in any order and any number of
\* times, and may go on after a call has raised.  calls is then the log of
\* the calls made, each followed by "raised" when it raised; pc stays
\* "caller".
HasLayout == \E i \in 1..Len(calls) : calls[i] = "compute_layout"

CallsMade == Cardinality({i \in 1..Len(calls) : calls[i] # "raised"})

Logged(p, returned) ==
    /\ pc = "caller"
    /\ CallsMade < MaxCalls
    /\ calls' = (IF returned THEN calls \o <<p>> ELSE calls \o <<p, "raised">>)
    /\ pc' = pc

\* The AttributeError of a method that reads the layout before compute_layout
\* has set it: nothing is changed.
RaisesAtOnce(p) ==
    /\ Logged(p, FALSE)
    /\ UNCHANGED <<params, layout, components, assembly_shape, written>>

CallComputeLayout ==
    /\ Logged("compute_layout", TRUE)
    /\ compute_layout

CallCreateComponents ==
    IF HasLayout
    THEN \E k \in 0..CreateTotal :
            /\ Logged("create_components", k = CreateTotal)
            /\ create_components(k)
    ELSE RaisesAtOnce("create_components")

CallPositionComponents ==
    IF HasLayout
    THEN \E k \in 0..PositionMaxOk :
            /\ Logged("position_components", k = PositionTotal)
            /\ position_components(k)
    ELSE RaisesAtOnce("position_components")

CallAssemble ==
    \E ok \in {b \in BOOLEAN : b => AssembleCanReturn} :
        /\ Logged("assemble", ok)
        /\ assemble(ok)

CallConfigurations ==
    [span_length : {1}, n_girders : 1..MaxCallGirders, spacing : {1},
     overhang : {1}, skew_angle : {0}, girder_d : {3}, girder_bf : {1},
     girder_tf : {1}, girder_tw : {1}, deck_thickness : {2}]

InitCalls ==
    /\ \E c \in CallConfigurations :
          /\ span_length = c.span_length
          /\ n_girders = c.n_girders
          /\ spacing = c.spacing
          /\ overhang = c.overhang
          /\ skew_angle = c.skew_angle
          /\ girder_section_d = c.girder_d
          /\ girder_section_bf = c.girder_bf
          /\ girder_section_tf = c.girder_tf
          /\ girder_section_tw = c.girder_tw
          /\ deck_thickness = c.deck_thickness
    /\ SAVE_STEP = TRUE
    /\ SAVE_BREP = TRUE
    /\ girders = <<>>
    /\ parapets = <<>>
    /\ deck = None
    /\ assembly_shape = None
    /\ deck_width = 0
    /\ girder_positions_y = <<>>
    /\ deck_z_level = 0
    /\ pc = "caller"
    /\ calls = <<>>
    /\ written = <<>>

NextCalls ==
    \/ CallComputeLayout
    \/ CallCreateComponents
    \/ CallPositionComponents
    \/ CallAssemble

SpecCalls == InitCalls /\ [][NextCalls]_vars

\* The positions in the log of the calls of p, and of those that returned.
CallsOf(p) == {i \in 1..Len(calls) : calls[i] = p}
RaisedAt(i) == i < Len(calls) /\ calls[i + 1] = "raised"
ReturnedCallsOf(p) == {i \in CallsOf(p) : ~RaisedAt(i)}
NoCallRaised == CallsOf("raised") = {}

\* compute_layout has run before the first create_components, and
\* create_components before the first position_components.
OrderRespected ==
    /\ \A i \in CallsOf("create_components") :
          \E j \in ReturnedCallsOf("compute_layout") : j < i
    /\ \A i \in CallsOf("position_components") :
          \E j \in ReturnedCallsOf("create_components") : j < i

\* The last call made is an assemble that returned: assembly_shape is the
\* compound it built.
JustAssembled == calls # <<>> /\ calls[Len(calls)] = "assemble"

\* The compound holds n_girders girders, the deck and two parapets, each
\* moved exactly once from where it was created (a corner at the origin).
CompoundOfOncePlacedParts ==
    /\ assembly_shape.kind = "Compound"
    /\ Len(assembly_shape.solids) = n_girders + 3
    /\ \A i \in 1..n_girders :
          /\ Len(assembly_shape.solids[i].boxes) = 3
          /\ assembly_shape.solids[i].boxes[1].lo = <<0, girder_positions_y[i], 0>>
    /\ Len(assembly_shape.solids[n_girders + 1].boxes) = 1
    /\ assembly_shape.solids[n_girders + 1].boxes[1].lo =
          <<0, 0 - deck_width, 2 * deck_z_level>>
    /\ assembly_shape.solids[n_girders + 2].boxes[1].lo =
          <<0, 0 - deck_width - PARAPET_WIDTH, 2 * (deck_z_level + deck_thickness)>>
    /\ assembly_shape.solids[n_girders + 3].boxes[1].lo =
          <<0, deck_width - PARAPET_WIDTH, 2 * (deck_z_level + deck_thickness)>>

\* C11 as claimed: for every sequence of calls (each of which returned) that
\* respects the order above, calls repeated or not, the compound built by
\* assemble holds exactly n_girders girders, one deck and two parapets, each
\* translated exactly once; and len(girders) == n_girders and
\* len(parapets) == 2 in every state after create_components.
C11_AnyCallSequence ==
    (OrderRespected /\ NoCallRaised) =>
        /\ JustAssembled => CompoundOfOncePlacedParts
        /\ ReturnedCallsOf("create_components") # {} =>
              (Len(girders) = n_girders /\ Len(parapets) = 2)

\* C11 amended: when every call made so far has returned, the order above was
\* respected, and create_components and position_components have each been
\* called exactly once, position_components before the assemble that built
\* the compound (compute_layout and assemble may be repeated), the compound
\* holds exactly n_girders girders, one deck and two parapets, each
\* translated exactly once.  create_components appends on every call: after c
\* calls of it, len(girders) == c * n_girders and len(parapets) == 2 * c.
C11_OncePlaced ==
    (OrderRespected /\ NoCallRaised) =>
        /\ ( /\ JustAssembled
             /\ Cardinality(CallsOf("create_components")) = 1
             /\ Cardinality(CallsOf("position_components")) = 1 ) =>
                CompoundOfOncePlacedParts
        /\ Len(girders) = Cardinality(CallsOf("create_components")) * n_girders
        /\ Len(parapets) = Cardinality(CallsOf("create_components")) * 2

C11_Witness ==
    /\ JustAssembled /\ NoCallRaised /\ n_girders = 2
    /\ calls = <<"compute_layout", "create_components", "compute_layout",
                 "position_components", "assemble">>
    /\ Len(assembly_shape.solids) = 5
    /\ assembly_shape.solids[2].boxes[1].lo = <<0, 1, 0>>

====
